---- MODULE Spec2Model ----
(***************************************************************************)
(* Jiva backend (src/main.py): the message-processing pipeline             *)
(* processing_pipeline, its provider fallback chain and its directive      *)
(* extraction, as a state machine over the conversation store.             *)
(*                                                                         *)
(* Texts are sequences of tokens.  A token is a run of characters whose    *)
(* inner structure no string operation of the code can observe: a word, a  *)
(* fixed literal, an open marker.  The closing marker "]]" is two "]"      *)
(* tokens, because text.find("]]", s) can match any two adjacent "]"       *)
(* characters, those that end a JSON list and those inside "[[SOS]]"       *)
(* included.                                                               *)
(***************************************************************************)
EXTENDS Integers, Sequences, FiniteSets, TLC

VARIABLES users, chat_history, reminders, groq_client, run, now, sweep, ex

vars == <<users, chat_history, reminders, groq_client, run, now, sweep, ex>>

(* ------------------------------ bounds --------------------------------- *)

\* Task slots: inbound messages being processed at the same time.
MaxRuns == 2
\* Turns the chat_history table may hold: a message is taken only while the
\* two turns of every run in flight and its own fit.
MaxTurns == 3

Runs == 1..MaxRuns

(* ------------------------------- text ---------------------------------- *)

Min(a, b) == IF a < b THEN a ELSE b
Max(a, b) == IF a > b THEN a ELSE b

\* str.strip() strips whitespace characters.
IsWs(t) == t = " "

RECURSIVE lstrip(_)
lstrip(t) == IF t # <<>> /\ IsWs(Head(t)) THEN lstrip(Tail(t)) ELSE t

RECURSIVE rstrip(_)
rstrip(t) ==
    IF t # <<>> /\ IsWs(t[Len(t)]) THEN rstrip(SubSeq(t, 1, Len(t) - 1)) ELSE t

\* message_body.strip(), text[:s].strip(), ....strip()
strip(t) == rstrip(lstrip(t))

\* pat occurs in text at 0-based offset i.
OccursAt(pat, text, i) ==
    /\ i >= 0
    /\ i + Len(pat) <= Len(text)
    /\ \A k \in 1..Len(pat) : text[i + k] = pat[k]

\* The highest offset instead of the lowest (str.rfind).
Find_last(pat, text, start) ==
    LET S == {i \in start..(Len(text) - Len(pat)) : OccursAt(pat, text, i)}
    IN  IF S = {} THEN -1 ELSE CHOOSE i \in S : \A j \in S : i >= j

\* str.find(pat, start): the lowest 0-based offset >= start, or -1.
Find(pat, text, start) ==
    LET S == {i \in start..(Len(text) - Len(pat)) : OccursAt(pat, text, i)}
    IN  IF S = {} THEN -1 ELSE CHOOSE i \in S : \A j \in S : i <= j

\* pat in text
Contains(pat, text) == Find(pat, text, 0) # -1

\* text[a:b] for 0 <= a and 0 <= b.
PySlice(text, a, b) ==
    LET n  == Len(text)
        bb == Min(b, n)
        aa == Min(a, n)
    IN  IF aa >= bb THEN <<>> ELSE SubSeq(text, aa + 1, bb)

\* The tokens of one character; every other token has two or more.
OneChar == {" ", "[", "]", ","}

\* text[a:-1]: text[a:] less its last character.  A token of one character
\* goes; a longer one is left cut short, which no string of the code equals
\* and json.loads rejects.
PySliceToLast(text, a) ==
    LET n == Len(text)
    IN  IF a >= n THEN <<>>
        ELSE IF text[n] \in OneChar THEN SubSeq(text, a + 1, n - 1)
        ELSE Append(SubSeq(text, a + 1, n - 1), "<cut>")

\* str.replace(old, new): every non-overlapping occurrence, left to right.
RECURSIVE Replace(_, _, _)
Replace(text, old, new) ==
    IF Len(text) < Len(old) \/ old = <<>> THEN text
    ELSE IF OccursAt(old, text, 0)
         THEN new \o Replace(SubSeq(text, Len(old) + 1, Len(text)), old, new)
         ELSE <<Head(text)>> \o Replace(Tail(text), old, new)

(* ----------------------------- literals -------------------------------- *)

Pending == <<"Pending">>

IntroPrompt == <<"Jai Shree Shyam! Namaste! I am Jiva ... may I know your good name?">>

ConfirmGreeting(new_name) ==
    <<"Namaste ">> \o new_name \o <<"! I am ready to help you with your health. How are you feeling today?">>

\* A notice that carries a directive marker.
DegradedNotice_sos ==
    <<"Server Overload: All AI systems are busy. Emergency? Call 108 immediately.", " ",
      "[[SOS", "]", "]">>

DegradedNotice ==
    <<"Server Overload: All AI systems are busy. Emergency? Call 108 immediately.">>

ImageNote == <<"\n[System: User uploaded an medical image/prescription]">>
AudioNote == <<"\n[System: User sent a Voice Note. Listen carefully and reply.]">>

TagUpdate == <<"[[UPDATE_PROFILE:">>
TagReminders == <<"[[SCHEDULE_REMINDERS:">>
SosMarker == <<"[[SOS", "]", "]">>
Close == <<"]", "]">>

(* ------------------------------- JSON ---------------------------------- *)

\* Payload tokens that are, each, one well-formed JSON object.
ObjTokens == {"{ec}", "{e2}", "{r1}", "{r2}", "{rx}", "{rt}"}

\* The dict json.loads yields for an object token.
\*   {ec}  {"emergency_contact": "c1"}
\*   {e2}  {"emergency_contact": "c2"}
\*   {r1}  {"message": "m1", "time": "2025-01-01T09:00:00"}
\*   {r2}  {"message": "m2", "time": "2025-01-02T09:00:00"}
\*   {rx}  {"message": "m3"}                      (an entry with no time)
\*   {rt}  {"message": "m4", "time": "soon"}      (a time that is no ISO date)
Dict(tok) ==
    CASE tok = "{ec}" -> ("emergency_contact" :> "c1")
      [] tok = "{e2}" -> ("emergency_contact" :> "c2")
      [] tok = "{r1}" -> ("message" :> "m1" @@ "time" :> "2025-01-01T09:00:00")
      [] tok = "{r2}" -> ("message" :> "m2" @@ "time" :> "2025-01-02T09:00:00")
      [] tok = "{rx}" -> ("message" :> "m3")
      [] tok = "{rt}" -> ("message" :> "m4" @@ "time" :> "soon")

None == [t |-> "None"]
JDict(d) == [t |-> "dict", d |-> d]
JList(items) == [t |-> "list", items |-> items]

\* json.loads as a pushdown scan of the tokens from position i on.
\*   stack   the items read so far of every list that is open, innermost last
\*   expect  "value", "first" (a value, or the "]" of an empty list), "sep"
\*           (a "," or a "]"), "end" (only whitespace may follow)
\*   result  the top-level value, once read
RECURSIVE Scan(_, _, _, _, _)
Scan(toks, i, stack, expect, result) ==
    LET n == Len(stack)
        \* a value v was read: it is the result, or an item of the open list
        Got(v, st) ==
            IF st = <<>>
            THEN Scan(toks, i + 1, st, "end", v)
            ELSE Scan(toks, i + 1,
                      [st EXCEPT ![Len(st)] = Append(@, v)], "sep", result)
        Closed == Got(JList(stack[n]), SubSeq(stack, 1, n - 1))
        Fail == [ok |-> FALSE, val |-> None]
    IN  IF i > Len(toks)
        THEN IF expect = "end" THEN [ok |-> TRUE, val |-> result] ELSE Fail
        ELSE IF IsWs(toks[i]) THEN Scan(toks, i + 1, stack, expect, result)
        ELSE IF expect \in {"value", "first"}
             THEN IF toks[i] \in ObjTokens THEN Got(JDict(Dict(toks[i])), stack)
                  ELSE IF toks[i] = "["
                       THEN Scan(toks, i + 1, Append(stack, <<>>), "first", result)
                  ELSE IF toks[i] = "]" /\ expect = "first" THEN Closed
                  ELSE Fail
        ELSE IF expect = "sep"
             THEN IF toks[i] = "," THEN Scan(toks, i + 1, stack, "value", result)
                  ELSE IF toks[i] = "]" THEN Closed
                  ELSE Fail
        ELSE Fail

\* json.loads(json_str): ok is FALSE where json.loads raises.
json_loads(toks) == Scan(toks, 1, <<>>, "value", None)

\* Python truth of a parsed value: None, {} and [] are false.
Truthy(v) ==
    \/ v.t = "dict" /\ DOMAIN v.d # {}
    \/ v.t = "list" /\ v.items # <<>>

(* ------------------------- directive extraction ------------------------ *)

\* extract_json(tag, text) -> (value or None, cleaned text)
extract_json(tag, text) ==
    IF Contains(tag, text)
    THEN LET s == Find(tag, text, 0)
             e == Find(Close, text, s)
             \* e is -1 when no "]]" follows the tag
             json_str == IF e = -1 THEN PySliceToLast(text, s + Len(tag))
                         ELSE PySlice(text, s + Len(tag), e)
             parsed == json_loads(json_str)
         IN  IF parsed.ok
             THEN [val |-> parsed.val, text |-> strip(PySlice(text, 0, s))]
             ELSE [val |-> None,
                   text |-> strip(Replace(text, tag \o <<" ">> \o json_str \o Close, <<>>))]
    ELSE [val |-> None, text |-> text]

(* ------------------------------ inputs --------------------------------- *)

\* Phone numbers of inbound users; "c1" is the emergency contact's number.
Phones == {"p1"}

\* Inbound message bodies.
Bodies == {<<" ", "Asha", " ">>, <<"Pending">>}

\* Texts a provider may return (response.text).
RespPlain == <<"Rest", " ", "well.">>
RespReminder ==
    <<"Noted.", " ", "[[SCHEDULE_REMINDERS:", " ", "[", "{r1}", "]", "]", "]">>
RespMalformed == <<"Hi", " ", "[[UPDATE_PROFILE:", " ", "{bad", "]", "]", " ", "bye">>
RespSos == <<"Call", " ", "108.", " ", "[[SOS", "]", "]">>
Responses == {RespPlain, RespReminder, RespMalformed, RespSos}

\* How a provider call that raises is classified (lines 430-443).
Failures == {"RateLimited", "TransientError", "FatalError"}

\* What a provider call gives: a text, or a classified failure.
ModelResults ==
    {[kind |-> "Success", text |-> t] : t \in Responses}
        \cup {[kind |-> f, text |-> <<>>] : f \in Failures}

\* What fetching the media of a message with a media_id can give.
MediaOutcomes == {"image", "audio", "unsupported", "unavailable", "bad_image"}

(* ------------------------------- store --------------------------------- *)

NoUser == [exists |-> FALSE]

\* A row of the users table.  onboarded is history: a NameCapture update has
\* been applied to the row.
UserRow(phone, name, contact, onboarded) ==
    [exists |-> TRUE, id |-> phone, phone_number |-> phone, name |-> name,
     emergency_contact |-> contact, onboarded |-> onboarded]

\* get_chat_history's default limit.
HistoryLimit == 10

\* The first n elements of a sequence: the oldest turns.
LastN_oldest(seq, n) == SubSeq(seq, 1, Min(n, Len(seq)))

\* The last n elements of a sequence, in order.
LastN(seq, n) == SubSeq(seq, Max(1, Len(seq) - n + 1), Len(seq))

\* get_user(phone_number): a failed read gives None.
get_user(phone, ok) == IF ok THEN users[phone] ELSE NoUser

\* create_user that inserts the row without the name it is given.
create_user_unnamed(phone, name, ok) ==
    IF ok /\ ~users[phone].exists
    THEN [users EXCEPT ![phone] = UserRow(phone, <<>>, "None", FALSE)]
    ELSE users

\* create_user(phone_number, name): the table after the insert.  A failed
\* insert, and an insert of a phone number that has a row, leave it as it is.
create_user(phone, name, ok) ==
    IF ok /\ ~users[phone].exists
    THEN [users EXCEPT ![phone] = UserRow(phone, name, "None", FALSE)]
    ELSE users

\* update_user_profile(phone_number, {"name": new_name}) of NameCapture.
update_user_name(phone, new_name, ok) ==
    IF ok /\ users[phone].exists
    THEN [users EXCEPT ![phone].name = new_name, ![phone].onboarded = TRUE]
    ELSE users

\* get_chat_history(user_id): the most recent turns, oldest first; a failed
\* read gives [].
get_chat_history(user_id, ok) ==
    IF ok THEN LastN(chat_history[user_id], HistoryLimit) ELSE <<>>

\* An insert that puts the row before the rows of the table.
save_message_first(user_id, role, content, ok) ==
    IF ok
    THEN [chat_history EXCEPT ![user_id] = <<[role |-> role, content |-> content]>> \o @]
    ELSE chat_history

\* save_message(user_id, role, content): the table after the insert.
save_message(user_id, role, content, ok) ==
    IF ok
    THEN [chat_history EXCEPT ![user_id] = Append(@, [role |-> role, content |-> content])]
    ELSE chat_history

(* ------------------------------ a run ---------------------------------- *)

\* The locals of a processing_pipeline task, with what it has done so far:
\* calls (provider calls issued), sent (send_whatsapp_message calls), wrote
\* (turns it appended to chat_history), stored (the users row of its phone
\* number when get_user read the table), faults (its store operations that
\* failed), raised (it ended by an exception) and escaped (the exception left
\* handle_incoming_message).
IdleRun ==
    [pc |-> "idle", phone |-> "-", orig |-> <<>>, message_body |-> <<>>,
     media_id |-> FALSE, user |-> NoUser, history |-> <<>>,
     media_part |-> "None", idx |-> 0, success |-> FALSE,
     response_text |-> <<>>, final_reply |-> <<>>,
     calls |-> <<>>, sent |-> <<>>, wrote |-> <<>>, raised |-> FALSE,
     stored |-> NoUser, faults |-> {}, escaped |-> FALSE]

\* The conversation state a loaded user record stands for (lines 241, 247).
ConversationState(user) ==
    IF ~user.exists THEN "Onboarding"
    ELSE IF user.name = Pending THEN "NameCapture"
    ELSE "Active"

\* new_name without the strip().
new_name_unstripped(message_body) == message_body

\* new_name = message_body.strip()
new_name(message_body) == strip(message_body)

\* models_to_try
models_to_try == <<"gemini-2.0-flash", "gemini-2.0-flash-lite-001">>
FallbackModel == "llama-3.3-70b-versatile"

\* The provider loop and the fallback are blocking calls in a coroutine: they
\* await nothing, so no other task of the event loop runs from the first
\* provider call to the end of the block.
InSyncBlock(q) == run[q].pc \in {"providers", "fallback", "reply"}
Blocked(r) == \E q \in Runs \ {r} : InSyncBlock(q)

Active(q) == run[q].pc \notin {"idle", "done"}

\* A branch that returns without the send.
Send_dropped(r, to, text) == run[r].sent

Send(r, to, text) == Append(run[r].sent, [to |-> to, text |-> text])

(* ----------------------- directive application ------------------------- *)

\* "emergency_contact" in updates
HasContact(v) == v.t = "dict" /\ "emergency_contact" \in DOMAIN v.d

\* datetime.fromisoformat(s) returns: s is an ISO 8601 date and time.
fromisoformat_ok(s) == s \in {"2025-01-01T09:00:00", "2025-01-02T09:00:00"}

\* An item of a reminder batch the loop body handles without raising:
\* item['time'] parses and item['message'] exists.
GoodEntry(item) ==
    /\ item.t = "dict"
    /\ {"time", "message"} \subseteq DOMAIN item.d
    /\ fromisoformat_ok(item.d["time"])

\* The items the loop of lines 495-498 handles: the try is around the whole
\* loop, so the first item that raises ends it.
RECURSIVE HandledEntries(_)
HandledEntries(items) ==
    IF items = <<>> \/ ~GoodEntry(Head(items)) THEN <<>>
    ELSE <<Head(items)>> \o HandledEntries(Tail(items))

\* Lines 468-511 on a response text: the reply, and the directives applied.
\*   updates    the profile update issued (None if none)
\*   entries    the reminder entries create_reminder is called for, in order
\*   alert      the messages sent to the emergency contact
Directives(response_text, user, user_phone, message_body) ==
    LET u == extract_json(TagUpdate, response_text)
        reply1 == IF Truthy(u.val) /\ HasContact(u.val)
                  THEN u.text \o <<"\n(Saved Emergency Contact: ", u.val.d["emergency_contact"], ")">>
                  ELSE u.text
        rl == extract_json(TagReminders, reply1)
        entries == IF Truthy(rl.val) /\ rl.val.t = "list"
                   THEN HandledEntries(rl.val.items) ELSE <<>>
        sos == Contains(SosMarker, response_text)
        contact == user.emergency_contact
        reply2 == IF sos THEN strip(Replace(rl.text, SosMarker, <<>>)) ELSE rl.text
        alert == <<"EMERGENCY: ">> \o user.name \o <<" (", user_phone, ") needs help! Message: '">>
                    \o message_body \o <<"'">>
    IN  [updates |-> IF Truthy(u.val) THEN u.val ELSE None,
         entries |-> entries,
         alert |-> IF sos /\ contact # "None"
                   THEN <<[to |-> contact, text |-> alert]>> ELSE <<>>,
         final_reply |->
            IF ~sos THEN reply2
            ELSE IF contact # "None"
                 THEN reply2 \o <<"\n\nI HAVE ALERTED YOUR EMERGENCY CONTACT. Help is on the way.">>
                 ELSE reply2 \o <<"\n\nI tried to alert your family, but NO Emergency Contact is saved! Please call 102/108 immediately.">>]

\* update_user_profile(user_phone, updates) of a profile directive: the table
\* after the update.  Only a dict of profile columns can be written.
update_user_profile(phone, updates, ok) ==
    IF ok /\ users[phone].exists /\ updates.t = "dict"
          /\ DOMAIN updates.d \subseteq {"emergency_contact"}
    THEN [users EXCEPT ![phone].emergency_contact = updates.d["emergency_contact"]]
    ELSE users

\* create_reminder for each entry, in order: the table after the inserts.
RECURSIVE create_reminders(_, _, _)
create_reminders(table, user_id, entries) ==
    IF entries = <<>> THEN table
    ELSE create_reminders(
            Append(table, [id |-> Len(table) + 1, user_id |-> user_id,
                           reminder_time |-> Head(entries).d["time"],
                           message |-> Head(entries).d["message"],
                           status |-> "pending"]),
            user_id, Tail(entries))

(* ------------------------------ the sweep ------------------------------ *)

\* Rows the reminders table may hold when a sweep finds it.
MaxReminders == 2
\* The clock: datetime.now() goes from 1 to MaxNow, in steps of the interval
\* of the sweep's trigger.
MaxNow == 2

\* Scheduled times of stored reminders.
ReminderTimes == {1, 2}

\* user_id values of stored reminders: the id of the users row of "p1", and
\* an id no users row has.
UserIds == {"p1", "u0"}

\* A row of the reminders table, as create_reminder writes it.
ReminderRow(id, user_id, reminder_time, message, status) ==
    [id |-> id, user_id |-> user_id, reminder_time |-> reminder_time,
     message |-> message, status |-> status]

\* The reminders table as the store may hold it: the row at position i has
\* id i and its own message.
ReminderTables ==
    UNION {{t \in [1..n -> [id : 1..n, user_id : UserIds, reminder_time : ReminderTimes,
                            message : {"m1", "m2", "m3"}, status : {"pending", "sent"}]] :
                \A i \in 1..n : t[i].id = i /\ t[i].message = <<"m1", "m2", "m3">>[((i - 1) % 3) + 1]}
           : n \in 0..MaxReminders}

\* message = f"Reminder: {reminder['message']}"
ReminderText(message) == <<"Reminder: ", message>>

\* The sweep's query without the filter on the status.
due_any(table, at, ok) ==
    IF ok THEN SelectSeq(table, LAMBDA row : row.reminder_time <= at) ELSE <<>>

\* .select("*").eq("status", "pending").lte("reminder_time", now): the rows
\* the query gives, in table order.
due_pending(table, at, ok) ==
    IF ok THEN SelectSeq(table, LAMBDA row : row.status = "pending" /\ row.reminder_time <= at)
    ELSE <<>>

\* users.select("phone_number").eq("id", user_id).single(): the phone number,
\* or "None" when no row has the id or the read fails (both end in the skip of
\* the reminder: the else branch, or the except of the loop body).
lookup_phone(user_id, ok) ==
    IF ok /\ user_id \in DOMAIN users /\ users[user_id].exists
    THEN users[user_id].phone_number ELSE "None"

\* The status update that deletes the row.
mark_sent_deleting(table, id, ok) ==
    IF ok THEN SelectSeq(table, LAMBDA row : row.id # id) ELSE table

\* reminders.update({"status": "sent"}).eq("id", id): the table after it.
mark_sent(table, id, ok) ==
    IF ok THEN [k \in 1..Len(table) |->
                    IF table[k].id = id THEN [table[k] EXCEPT !.status = "sent"] ELSE table[k]]
    ELSE table

\* The loop without the try around its body: an exception ends the sweep.
AfterReminder_abort(i, n, raised) ==
    IF raised \/ i >= n THEN [pc |-> "done", i |-> i] ELSE [pc |-> "resolve", i |-> i + 1]

\* Where "for reminder in reminders" goes after the reminder at position i of
\* n: the except of the loop body logs and the loop goes on.
AfterReminder(i, n, raised) ==
    IF i >= n THEN [pc |-> "done", i |-> i] ELSE [pc |-> "resolve", i |-> i + 1]

\* Line 606: the result of send_whatsapp_message is dropped, the status update
\* follows a delivery that failed too.
MarkAfterSend(delivered) == TRUE

\* check_Reminders between two runs, and what its last run did:
\*   n       runs started           at      the now of the run
\*   due     the rows of its query  i       the position in due
\*   before  the table at the query
\*   steps   per reminder handled: resolved (the user was found), delivered
\*           (the send succeeded), marked (the status update succeeded)
\*   log     the reminder messages sent by every run so far
IdleSweep ==
    [pc |-> "idle", n |-> 0, at |-> 0, due |-> <<>>, i |-> 0, phone |-> "None",
     before |-> <<>>, queried |-> FALSE, steps |-> <<>>, log |-> <<>>,
     escaped |-> FALSE]

\* The directive block of lines 471-511 before it is given a text, and what
\* it did with the text it was given:
\*   pieces  the parts the text is made of   text  the text
\*   tag, one   extract_json(tag, text)
\*   d       the directives applied and the reply
IdleEx ==
    [pc |-> "idle", pieces |-> <<>>, text |-> <<>>, tag |-> <<>>,
     one |-> [val |-> None, text |-> <<>>],
     d |-> [updates |-> None, entries |-> <<>>, alert |-> <<>>, final_reply |-> <<>>]]

(* ------------------------------ actions -------------------------------- *)

Init ==
    /\ users \in [Phones -> {NoUser,
                             UserRow("p1", Pending, "None", FALSE),
                             UserRow("p1", <<"Asha">>, "None", TRUE),
                             UserRow("p1", <<"Asha">>, "c1", TRUE)}]
    /\ chat_history = [p \in Phones |-> <<>>]
    /\ reminders = <<>>
    /\ groq_client \in BOOLEAN
    /\ run = [r \in Runs |-> IdleRun]
    /\ now = 1
    /\ sweep = IdleSweep
    /\ ex = IdleEx

\* webhook_handler -> handle_incoming_message: a message is taken and its
\* processing_pipeline task dispatched, while the chat_history table has room
\* for the turns of the runs in flight and its own.
Arrive(r, bodies, room) ==
    /\ run[r].pc = "idle"
    /\ ~Blocked(r)
    /\ \A q \in Runs : q < r => run[q].pc # "idle"
    /\ \E p \in Phones, body \in bodies, media \in BOOLEAN :
        /\ Len(chat_history[p]) + 2 * Cardinality({q \in Runs : Active(q)}) + 2 <= room
        /\ run' = [run EXCEPT ![r] = [IdleRun EXCEPT !.pc = "get_user", !.phone = p,
                                          !.orig = body, !.message_body = body,
                                          !.media_id = media]]
    /\ UNCHANGED <<users, chat_history, reminders, groq_client, now, sweep, ex>>

Take(r, bodies) == Arrive(r, bodies, MaxTurns)

\* The messages arrive one at a time: each is taken when the task of the one
\* before it is over.
Start(r) ==
    /\ \A q \in Runs : run[q].pc = "idle"
    /\ Take(r, Bodies)

\* user = await get_user(user_phone), and the branch taken on it.
GetUser(r) ==
    /\ run[r].pc = "get_user"
    /\ ~Blocked(r)
    /\ \E ok \in BOOLEAN :
        LET user == get_user(run[r].phone, ok)
            st == ConversationState(user)
        IN  run' = [run EXCEPT ![r].user = user,
                               ![r].stored = users[run[r].phone],
                               ![r].faults = IF ok THEN @ ELSE @ \cup {"get_user"},
                               ![r].pc = CASE st = "Onboarding" -> "create_user"
                                           [] st = "NameCapture" -> "update_name"
                                           [] st = "Active" -> "get_history"]
    /\ UNCHANGED <<users, chat_history, reminders, groq_client, now, sweep, ex>>

\* Onboarding: create_user(user_phone, "Pending"), the introduction, return.
CreateUser(r) ==
    /\ run[r].pc = "create_user"
    /\ ~Blocked(r)
    /\ \E ok \in BOOLEAN :
        /\ users' = create_user(run[r].phone, Pending, ok)
        /\ run' = [run EXCEPT ![r].sent = Send(r, run[r].phone, IntroPrompt),
                              ![r].faults = IF ok THEN @ ELSE @ \cup {"create_user"},
                              ![r].pc = "done"]
    /\ UNCHANGED <<chat_history, reminders, groq_client, now, sweep, ex>>

\* NameCapture: the message is stored as the name, the greeting, return.
UpdateName(r) ==
    /\ run[r].pc = "update_name"
    /\ ~Blocked(r)
    /\ LET name == new_name(run[r].message_body)
       IN  \E ok \in BOOLEAN :
            /\ users' = update_user_name(run[r].phone, name, ok)
            /\ run' = [run EXCEPT ![r].sent = Send(r, run[r].phone, ConfirmGreeting(name)),
                                  ![r].faults = IF ok THEN @ ELSE @ \cup {"update_user_profile"},
                                  ![r].pc = "done"]
    /\ UNCHANGED <<chat_history, reminders, groq_client, now, sweep, ex>>

\* history_content: the stored turns with the provider's role names.
history_content(history) ==
    [i \in 1..Len(history) |->
        [role |-> IF history[i].role = "user" THEN "user" ELSE "model",
         content |-> history[i].content]]

\* The request a primary provider gets: one-shot with the media when there is
\* a media part, the chat seeded with the history otherwise.
PrimaryRequest(rn) ==
    IF rn.media_part # "None"
    THEN [system |-> TRUE, history |-> <<>>, media |-> rn.media_part, text |-> rn.message_body]
    ELSE [system |-> TRUE, history |-> history_content(rn.history), media |-> "None",
          text |-> rn.message_body]

\* The request the fallback gets: the system and the user message.
FallbackRequest(rn) ==
    [system |-> TRUE, history |-> <<>>, media |-> "None", text |-> rn.message_body]

\* The loop without its break: a success goes on to the next model too.
AfterAttempt_nobreak(idx, succeeded) ==
    IF idx >= Len(models_to_try)
    THEN [pc |-> "fallback", idx |-> idx]
    ELSE [pc |-> "providers", idx |-> idx + 1]

\* Where the loop over models_to_try goes after the attempt at position idx:
\* a success breaks, a failure of any kind continues with the next model.
AfterAttempt(idx, succeeded) ==
    IF succeeded \/ idx >= Len(models_to_try)
    THEN [pc |-> "fallback", idx |-> idx]
    ELSE [pc |-> "providers", idx |-> idx + 1]

\* The fallback condition without the test of success.
FallbackDue_unconditional(success) == groq_client

\* if not success and groq_client:
FallbackDue(success) == ~success /\ groq_client

\* Line 465, "if not success:": the branch that runs the extraction,
\* persists the two turns and sends final_reply; the other one sends
\* response_text as it is.
ExtractAndPersist(success) == ~success

\* handle_incoming_message without its try: what processing_pipeline raises
\* leaves it.
handle_incoming_message_uncaught(raised) == raised

\* handle_incoming_message awaits processing_pipeline inside try / except
\* Exception (lines 524, 549): what the pipeline raises is logged there, and
\* nothing leaves the function.
handle_incoming_message_raises(raised) == FALSE

\* chat_history = await get_chat_history(user_id), the media handling, and the
\* prompt, up to the first provider call.
GetHistory(r) ==
    /\ run[r].pc = "get_history"
    /\ ~Blocked(r)
    /\ \E ok \in BOOLEAN, m \in MediaOutcomes :
        LET history == get_chat_history(run[r].user.id, ok)
            got == IF run[r].media_id THEN m ELSE "none"
        IN  /\ ~run[r].media_id => m = "unavailable"
            /\ run' = [run EXCEPT
                  ![r].history = history,
                  ![r].faults = IF ok THEN @ ELSE @ \cup {"get_chat_history"},
                  ![r].media_part = CASE got = "image" -> "Image"
                                      [] got = "audio" -> "Audio"
                                      [] OTHER -> "None",
                  ![r].message_body = CASE got = "image" -> @ \o ImageNote
                                        [] got = "audio" -> @ \o AudioNote
                                        [] OTHER -> @,
                  \* Image.open raises on bytes that are no image
                  ![r].raised = (got = "bad_image"),
                  ![r].escaped = handle_incoming_message_raises(got = "bad_image"),
                  ![r].pc = IF got = "bad_image" THEN "done" ELSE "providers",
                  ![r].idx = IF got = "bad_image" THEN 0 ELSE 1]
    /\ UNCHANGED <<users, chat_history, reminders, groq_client, now, sweep, ex>>

\* One iteration of "for model_name in models_to_try".
Attempt(r, results) ==
    /\ run[r].pc = "providers"
    /\ \E out \in results :
        LET succeeded == out.kind = "Success"
            next == AfterAttempt(run[r].idx, succeeded)
            call == [provider |-> models_to_try[run[r].idx],
                     request |-> PrimaryRequest(run[r]),
                     outcome |-> out.kind]
        IN  run' = [run EXCEPT
                ![r].calls = Append(@, call),
                ![r].success = succeeded,
                ![r].response_text = IF succeeded THEN out.text ELSE @,
                ![r].pc = next.pc,
                ![r].idx = next.idx]
    /\ UNCHANGED <<users, chat_history, reminders, groq_client, now, sweep, ex>>

TryProvider(r) == Attempt(r, ModelResults)

\* The Groq fallback block.
FallbackBlock(r, results) ==
    /\ run[r].pc = "fallback"
    /\ IF FallbackDue(run[r].success)
       THEN \E out \in results :
            LET succeeded == out.kind = "Success"
                call == [provider |-> FallbackModel,
                         request |-> FallbackRequest(run[r]),
                         outcome |-> out.kind]
            IN  run' = [run EXCEPT
                    ![r].calls = Append(@, call),
                    ![r].success = succeeded,
                    ![r].response_text = IF succeeded THEN out.text ELSE @,
                    ![r].pc = "reply"]
       ELSE run' = [run EXCEPT ![r].pc = "reply"]
    /\ UNCHANGED <<users, chat_history, reminders, groq_client, now, sweep, ex>>

Fallback(r) == FallbackBlock(r, ModelResults)

\* Lines 465-521 up to the first save_message: on the one branch the notice
\* replaces response_text, the directives of it are extracted and applied; on
\* the other response_text is sent as it is and the run ends.
Reply(r) ==
    /\ run[r].pc = "reply"
    /\ IF ExtractAndPersist(run[r].success)
       THEN LET d == Directives(DegradedNotice, run[r].user, run[r].phone,
                                run[r].message_body)
            IN  /\ \E ok \in BOOLEAN :
                    users' = IF d.updates = None THEN users
                             ELSE update_user_profile(run[r].phone, d.updates, ok)
                /\ \E ok \in BOOLEAN :
                    reminders' = IF ok THEN create_reminders(reminders, run[r].user.id, d.entries)
                                 ELSE reminders
                /\ run' = [run EXCEPT
                        ![r].response_text = DegradedNotice,
                        ![r].final_reply = d.final_reply,
                        ![r].sent = @ \o d.alert,
                        ![r].pc = "save_user"]
       ELSE /\ run' = [run EXCEPT
                        ![r].sent = Send(r, run[r].phone, run[r].response_text),
                        ![r].pc = "done"]
            /\ UNCHANGED <<users, reminders>>
    /\ UNCHANGED <<chat_history, groq_client, now, sweep, ex>>

\* await save_message(user_id, "user", message_body)
SaveUserTurn(r) ==
    /\ run[r].pc = "save_user"
    /\ ~Blocked(r)
    /\ \E ok \in BOOLEAN :
        /\ chat_history' = save_message(run[r].user.id, "user", run[r].message_body, ok)
        /\ run' = [run EXCEPT
                ![r].wrote = IF ok THEN Append(@, [role |-> "user", content |-> run[r].message_body])
                             ELSE @,
                ![r].faults = IF ok THEN @ ELSE @ \cup {"save_message"},
                ![r].pc = "save_assistant"]
    /\ UNCHANGED <<users, reminders, groq_client, now, sweep, ex>>

\* await save_message(user_id, "assistant", final_reply), then the reply is
\* sent.
SaveAssistantTurn(r) ==
    /\ run[r].pc = "save_assistant"
    /\ ~Blocked(r)
    /\ \E ok \in BOOLEAN :
        /\ chat_history' = save_message(run[r].user.id, "assistant", run[r].final_reply, ok)
        /\ run' = [run EXCEPT
                ![r].wrote = IF ok THEN Append(@, [role |-> "assistant", content |-> run[r].final_reply])
                             ELSE @,
                ![r].faults = IF ok THEN @ ELSE @ \cup {"save_message"},
                ![r].sent = Send(r, run[r].phone, run[r].final_reply),
                ![r].pc = "done"]
    /\ UNCHANGED <<users, reminders, groq_client, now, sweep, ex>>

\* The task is over and its locals are gone.
Finish(r) ==
    /\ run[r].pc = "done"
    /\ ~Blocked(r)
    /\ run' = [run EXCEPT ![r] = IdleRun]
    /\ UNCHANGED <<users, chat_history, reminders, groq_client, now, sweep, ex>>

Next ==
    \E r \in Runs :
        \/ Start(r)
        \/ GetUser(r)
        \/ CreateUser(r)
        \/ UpdateName(r)
        \/ GetHistory(r)
        \/ TryProvider(r)
        \/ Fallback(r)
        \/ Reply(r)
        \/ SaveUserTurn(r)
        \/ SaveAssistantTurn(r)
        \/ Finish(r)

Spec == Init /\ [][Next]_vars

(* --------------------------- sweep actions ----------------------------- *)

\* The try of check_Reminders (lines 582, 618) and the try of its loop body
\* (lines 596, 615) catch every Exception: none leaves the function.
check_Reminders_raises(raised) == FALSE

\* The reminders table is a table of the store: a sweep takes it as it finds
\* it.  The user of id "p1" is stored, no user has the id "u0".
InitSweep ==
    /\ users = [p \in Phones |-> UserRow(p, <<"Asha">>, "c1", TRUE)]
    /\ chat_history = [p \in Phones |-> <<>>]
    /\ reminders \in ReminderTables
    /\ groq_client = TRUE
    /\ run = [r \in Runs |-> IdleRun]
    /\ now = 1
    /\ sweep = IdleSweep
    /\ ex = IdleEx

\* now = datetime.now() and the query of the pending reminders that are due:
\* the trigger starts one run per interval, when the run before it is over.
\* A failed query ends the run in the except of line 618; an empty result
\* ends it too.
SweepQuery ==
    /\ sweep.pc \in {"idle", "done"}
    /\ sweep.n = 0 \/ sweep.at < now
    /\ \E ok \in BOOLEAN :
        LET due == due_pending(reminders, now, ok)
        IN  sweep' = [sweep EXCEPT
                !.n = @ + 1, !.at = now, !.due = due, !.before = reminders,
                !.queried = ok, !.steps = <<>>, !.phone = "None",
                !.escaped = check_Reminders_raises(~ok),
                !.i = IF due = <<>> THEN 0 ELSE 1,
                !.pc = IF due = <<>> THEN "done" ELSE "resolve"]
    /\ UNCHANGED <<users, chat_history, reminders, groq_client, run, now, ex>>

\* The loop body up to the status update: the user's phone number is looked
\* up and, when there is one, the reminder is sent to it.
SweepResolve ==
    /\ sweep.pc = "resolve"
    /\ \E ok \in BOOLEAN, delivered \in BOOLEAN :
        LET reminder == sweep.due[sweep.i]
            phone == lookup_phone(reminder.user_id, ok)
            next == AfterReminder(sweep.i, Len(sweep.due), ~ok)
            skipped == [id |-> reminder.id, resolved |-> FALSE, delivered |-> FALSE,
                        marked |-> FALSE]
        IN  IF phone # "None"
            THEN sweep' = [sweep EXCEPT
                    !.phone = phone,
                    !.log = Append(@, [n |-> sweep.n, id |-> reminder.id, to |-> phone,
                                       text |-> ReminderText(reminder.message),
                                       ok |-> delivered]),
                    !.steps = IF MarkAfterSend(delivered) THEN @
                              ELSE Append(@, [skipped EXCEPT !.resolved = TRUE]),
                    !.pc = IF MarkAfterSend(delivered) THEN "mark"
                           ELSE AfterReminder(sweep.i, Len(sweep.due), FALSE).pc,
                    !.i = IF MarkAfterSend(delivered) THEN @
                          ELSE AfterReminder(sweep.i, Len(sweep.due), FALSE).i]
            ELSE /\ delivered = FALSE
                 /\ sweep' = [sweep EXCEPT
                        !.steps = Append(@, skipped),
                        !.escaped = check_Reminders_raises(~ok),
                        !.pc = next.pc, !.i = next.i]
    /\ UNCHANGED <<users, chat_history, reminders, groq_client, run, now, ex>>

\* The status update of the reminder that was sent, and on to the next one.
SweepMark ==
    /\ sweep.pc = "mark"
    /\ \E ok \in BOOLEAN :
        LET reminder == sweep.due[sweep.i]
            next == AfterReminder(sweep.i, Len(sweep.due), ~ok)
        IN  /\ reminders' = mark_sent(reminders, reminder.id, ok)
            /\ sweep' = [sweep EXCEPT
                    !.steps = Append(@, [id |-> reminder.id, resolved |-> TRUE,
                                         delivered |-> sweep.log[Len(sweep.log)].ok,
                                         marked |-> ok]),
                    !.escaped = check_Reminders_raises(~ok),
                    !.pc = next.pc, !.i = next.i]
    /\ UNCHANGED <<users, chat_history, groq_client, run, now, ex>>

\* Time passes.  A sweep reads the clock once, at its start: the clock moves
\* between two sweeps.
Tick ==
    /\ sweep.pc \in {"idle", "done"}
    /\ now < MaxNow
    /\ now' = now + 1
    /\ UNCHANGED <<users, chat_history, reminders, groq_client, run, sweep, ex>>

NextSweep == SweepQuery \/ SweepResolve \/ SweepMark \/ Tick

SpecSweep == InitSweep /\ [][NextSweep]_vars

(* ------------------------- the history window -------------------------- *)

\* Exchanges a stored history may start with.
MaxPrior == 6

\* The turns k exchanges that ended in the notice leave in chat_history
\* (lines 514-515): the user's message, then the notice.
RECURSIVE FailedExchanges(_)
FailedExchanges(k) ==
    IF k = 0 THEN <<>>
    ELSE FailedExchanges(k - 1)
            \o <<[role |-> "user",
                  content |-> IF k % 2 = 1 THEN <<"Pending">> ELSE <<" ", "Asha", " ">>],
                 [role |-> "assistant", content |-> DegradedNotice]>>

\* What a provider call gives in the runs over a stored history.
WindowResults ==
    {[kind |-> "Success", text |-> RespPlain], [kind |-> "RateLimited", text |-> <<>>]}

\* An Active user whose history holds MaxPrior earlier exchanges, or one or
\* two fewer.
InitWindow ==
    /\ users = [p \in Phones |-> UserRow(p, <<"Asha">>, "None", TRUE)]
    /\ chat_history \in [Phones -> {FailedExchanges(k) : k \in (MaxPrior - 2)..MaxPrior}]
    /\ reminders = <<>>
    /\ groq_client = TRUE
    /\ run = [r \in Runs |-> IdleRun]
    /\ now = 1
    /\ sweep = IdleSweep
    /\ ex = IdleEx

StartWindow(r) ==
    /\ \A q \in Runs : run[q].pc = "idle"
    /\ Arrive(r, {<<"Asha">>}, 2 * MaxPrior + 2)

TryWindow(r) == Attempt(r, WindowResults)

FallbackWindow(r) == FallbackBlock(r, WindowResults)

NextWindow ==
    \E r \in Runs :
        \/ StartWindow(r)
        \/ GetUser(r)
        \/ CreateUser(r)
        \/ GetHistory(r)
        \/ TryWindow(r)
        \/ FallbackWindow(r)
        \/ Reply(r)
        \/ SaveUserTurn(r)
        \/ SaveAssistantTurn(r)
        \/ Finish(r)

SpecWindow == InitWindow /\ [][NextWindow]_vars

(* ----------------------- the directive block alone --------------------- *)

\* Parts a response text is made of, at most.
MaxPieces == 3

\* The parts: a word, a space, and the markers the system instruction tells
\* the model to write.
\*   U1, U2  a profile update with the contact c1, c2
\*   Ub      a profile update whose payload is not JSON
\*   Uo      a profile update with the contact c1 and no "]]" after it
\*   R1, R2  a reminder batch of one entry, with a space before the "]]"
\*   Rd      a reminder batch as the system instruction writes it: "...}]]]"
\*   S       [[SOS]]
PieceNames == {"w", "sp", "U1", "U2", "Ub", "Uo", "R1", "R2", "Rd", "S"}

PieceText(name) ==
    CASE name = "w"  -> <<"Hi">>
      [] name = "sp" -> <<" ">>
      [] name = "U1" -> TagUpdate \o <<" ", "{ec}">> \o Close
      [] name = "U2" -> TagUpdate \o <<" ", "{e2}">> \o Close
      [] name = "Ub" -> TagUpdate \o <<" ", "{bad">> \o Close
      [] name = "Uo" -> TagUpdate \o <<" ", "{ec}">>
      [] name = "R1" -> TagReminders \o <<" ", "[", "{r1}", "]", " ">> \o Close
      [] name = "R2" -> TagReminders \o <<" ", "[", "{r2}", "]", " ">> \o Close
      [] name = "Rd" -> TagReminders \o <<" ", "[", "{r1}", "]">> \o Close
      [] name = "S"  -> SosMarker

\* The text of a sequence of parts.
RECURSIVE Concat(_)
Concat(ps) == IF ps = <<>> THEN <<>> ELSE PieceText(Head(ps)) \o Concat(Tail(ps))

\* The message the user sent, in the runs of the block alone.
HelpBody == <<"help">>

\* An Active user, with or without a stored emergency contact, and a response
\* text of one to MaxPieces parts.
InitExtract ==
    /\ users \in [Phones -> {UserRow("p1", <<"Asha">>, "None", TRUE),
                             UserRow("p1", <<"Asha">>, "c9", TRUE)}]
    /\ chat_history = [p \in Phones |-> <<>>]
    /\ reminders = <<>>
    /\ groq_client = TRUE
    /\ run = [r \in Runs |-> IdleRun]
    /\ now = 1
    /\ sweep = IdleSweep
    /\ ex \in {[IdleEx EXCEPT !.pc = "ready", !.pieces = ps, !.text = Concat(ps)] :
                    ps \in UNION {[1..n -> PieceNames] : n \in 1..MaxPieces}}

\* One call of extract_json on the text.
ExtractOne ==
    /\ ex.pc = "ready"
    /\ \E tag \in {TagUpdate, TagReminders} :
        ex' = [ex EXCEPT !.pc = "extracted", !.tag = tag, !.one = extract_json(tag, ex.text)]
    /\ UNCHANGED <<users, chat_history, reminders, groq_client, run, now, sweep>>

\* Lines 484-511 on the text: the three directives are extracted and applied
\* (the store writes succeed).
ApplyDirectives ==
    /\ ex.pc = "ready"
    /\ LET user == users["p1"]
           d == Directives(ex.text, user, "p1", HelpBody)
       IN  /\ users' = IF d.updates = None THEN users
                       ELSE update_user_profile("p1", d.updates, TRUE)
           /\ reminders' = create_reminders(reminders, user.id, d.entries)
           /\ ex' = [ex EXCEPT !.pc = "applied", !.d = d]
    /\ UNCHANGED <<chat_history, groq_client, run, now, sweep>>

NextExtract == ExtractOne \/ ApplyDirectives

SpecExtract == InitExtract /\ [][NextExtract]_vars

(* ------------------------- reminder batches ---------------------------- *)

\* Entries a reminder batch holds, at most.
MaxEntries == 3

\* The entries: two well-formed ones, one with no time, one whose time does
\* not parse.
EntryTokens == {"{r1}", "{r2}", "{rx}", "{rt}"}

\* The JSON list of the entries: "[" e1 "," e2 ... "]".
RECURSIVE JoinEntries(_)
JoinEntries(es) ==
    IF es = <<>> THEN <<>>
    ELSE IF Len(es) = 1 THEN <<Head(es)>>
    ELSE <<Head(es), ",", " ">> \o JoinEntries(Tail(es))

\* A response with a reminder batch of the entries, its list closed before
\* the "]]" of the marker.
BatchText(es) ==
    <<"Noted.", " ">> \o TagReminders \o <<" ", "[">> \o JoinEntries(es) \o <<"]", " ">> \o Close

\* An Active user and a response text with a batch of one to MaxEntries
\* entries.
InitBatch ==
    /\ users = [p \in Phones |-> UserRow(p, <<"Asha">>, "None", TRUE)]
    /\ chat_history = [p \in Phones |-> <<>>]
    /\ reminders = <<>>
    /\ groq_client = TRUE
    /\ run = [r \in Runs |-> IdleRun]
    /\ now = 1
    /\ sweep = IdleSweep
    /\ ex \in {[IdleEx EXCEPT !.pc = "ready", !.pieces = es, !.text = BatchText(es)] :
                    es \in UNION {[1..n -> EntryTokens] : n \in 1..MaxEntries}}

SpecBatch == InitBatch /\ [][NextExtract]_vars

(* --------------------- messages with no text in them ------------------- *)

\* Bodies of messages that carry no text: the body of an audio message and of
\* an image without a caption (lines 539-543), and a text of whitespace.
EmptyBodies == {<<>>, <<" ">>}

\* What a provider call gives in the runs for these messages.
FaultResults ==
    {[kind |-> "Success", text |-> RespPlain]}
        \cup {[kind |-> f, text |-> <<>>] : f \in Failures}

StartEmpty(r) ==
    /\ \A q \in Runs : run[q].pc = "idle"
    /\ Take(r, EmptyBodies)

TryFaulty(r) == Attempt(r, FaultResults)

FallbackFaulty(r) == FallbackBlock(r, FaultResults)

NextFaults ==
    \E r \in Runs :
        \/ StartEmpty(r)
        \/ GetUser(r)
        \/ CreateUser(r)
        \/ UpdateName(r)
        \/ GetHistory(r)
        \/ TryFaulty(r)
        \/ FallbackFaulty(r)
        \/ Reply(r)
        \/ SaveUserTurn(r)
        \/ SaveAssistantTurn(r)
        \/ Finish(r)

SpecFaults == Init /\ [][NextFaults]_vars

(* ----------------------- a crash in mid-turn -------------------------- *)

\* What a provider call gives in the runs around a crash.
CrashResults ==
    {[kind |-> "Success", text |-> RespPlain], [kind |-> "FatalError", text |-> <<>>]}

\* The process has stopped in a turn: the record of the task that was running
\* is kept with pc "crashed", as what the turn had observed.
Crashed(q) == run[q].pc = "crashed"

\* The messages arrive one at a time; after a crash the process is started
\* again and takes the next inbound message.
StartCrash(r) ==
    /\ \A q \in Runs : run[q].pc \in {"idle", "crashed"}
    /\ Arrive(r, {<<"Asha">>}, MaxTurns + 2)

\* The process stops while the turn, past its get_user, waits for a store
\* or media operation that has not taken effect, or is between two provider
\* calls: the task and its locals are gone, the store is as it was.
Crash(r) ==
    /\ run[r].pc \in {"create_user", "update_name", "get_history", "providers",
                       "fallback", "reply", "save_user", "save_assistant"}
    /\ \A q \in Runs : ~Crashed(q)
    /\ run' = [run EXCEPT ![r].pc = "crashed"]
    /\ UNCHANGED <<users, chat_history, reminders, groq_client, now, sweep, ex>>

\* The process stops between the store write of the turn and the send that
\* follows it: after create_user has inserted the row and before line 244,
\* or after update_user_profile has stored the name and before line 253.
CrashAfterWrite(r) ==
    /\ run[r].pc \in {"create_user", "update_name"}
    /\ \A q \in Runs : ~Crashed(q)
    /\ users' = IF run[r].pc = "create_user"
                THEN create_user(run[r].phone, Pending, TRUE)
                ELSE update_user_name(run[r].phone, new_name(run[r].message_body), TRUE)
    /\ run' = [run EXCEPT ![r].pc = "crashed"]
    /\ UNCHANGED <<chat_history, reminders, groq_client, now, sweep, ex>>

\* The task is over; the record of the message taken after a crash is kept.
FinishCrash(r) ==
    /\ \A q \in Runs : ~Crashed(q)
    /\ Finish(r)

TryCrash(r) == Attempt(r, CrashResults)

FallbackCrash(r) == FallbackBlock(r, CrashResults)

NextCrash ==
    \E r \in Runs :
        \/ StartCrash(r)
        \/ GetUser(r)
        \/ CreateUser(r)
        \/ UpdateName(r)
        \/ GetHistory(r)
        \/ TryCrash(r)
        \/ FallbackCrash(r)
        \/ Reply(r)
        \/ SaveUserTurn(r)
        \/ SaveAssistantTurn(r)
        \/ FinishCrash(r)
        \/ Crash(r)
        \/ CrashAfterWrite(r)

SpecCrash == Init /\ [][NextCrash]_vars

(* ------------------- messages processed concurrently ------------------- *)

\* What a provider call gives in the runs of a burst.
BurstResults ==
    {[kind |-> "Success", text |-> RespPlain], [kind |-> "FatalError", text |-> <<>>]}

\* webhook_handler adds one background task per request and returns: the
\* task of a message is dispatched while those of earlier messages, the same
\* user's included, are in flight.  Nothing orders the tasks but the event
\* loop, which runs one of them from an await to its next await.  The
\* messages of a burst are text messages, and the record of a task that is
\* over is dropped before the next message is taken.
StartBurst(r) ==
    /\ \A q \in Runs : run[q].pc # "done"
    /\ Arrive(r, Bodies, MaxTurns + 1)
    /\ ~run'[r].media_id

TryBurst(r) == Attempt(r, BurstResults)

FallbackBurst(r) == FallbackBlock(r, BurstResults)

NextBurst ==
    \E r \in Runs :
        \/ StartBurst(r)
        \/ GetUser(r)
        \/ CreateUser(r)
        \/ UpdateName(r)
        \/ GetHistory(r)
        \/ TryBurst(r)
        \/ FallbackBurst(r)
        \/ Reply(r)
        \/ SaveUserTurn(r)
        \/ SaveAssistantTurn(r)
        \/ Finish(r)

SpecBurst == Init /\ [][NextBurst]_vars

(* -------------------- an SOS with a profile update --------------------- *)

\* A response that gives an emergency contact and raises the SOS.
RespSosUpdate ==
    <<"Help", " ", "is", " ", "coming.", " ", "[[UPDATE_PROFILE:", " ", "{ec}", "]", "]",
      " ", "[[SOS", "]", "]">>

\* What a provider call gives in these runs.
SosResults ==
    {[kind |-> "Success", text |-> RespSosUpdate], [kind |-> "Success", text |-> RespSos],
     [kind |-> "RateLimited", text |-> <<>>]}

\* An Active user, with no emergency contact stored or with one.
InitSos ==
    /\ users \in [Phones -> {UserRow("p1", <<"Asha">>, "None", TRUE),
                             UserRow("p1", <<"Asha">>, "c9", TRUE)}]
    /\ chat_history = [p \in Phones |-> <<>>]
    /\ reminders = <<>>
    /\ groq_client \in BOOLEAN
    /\ run = [r \in Runs |-> IdleRun]
    /\ now = 1
    /\ sweep = IdleSweep
    /\ ex = IdleEx

StartSos(r) ==
    /\ \A q \in Runs : run[q].pc = "idle"
    /\ Take(r, {HelpBody})

TrySos(r) == Attempt(r, SosResults)

FallbackSos(r) == FallbackBlock(r, SosResults)

NextSos ==
    \E r \in Runs :
        \/ StartSos(r)
        \/ GetUser(r)
        \/ CreateUser(r)
        \/ GetHistory(r)
        \/ TrySos(r)
        \/ FallbackSos(r)
        \/ Reply(r)
        \/ SaveUserTurn(r)
        \/ SaveAssistantTurn(r)
        \/ Finish(r)

SpecSos == InitSos /\ [][NextSos]_vars

(* ------------------------------ claims --------------------------------- *)

\* The run ended by returning.
Returned(r) == run[r].pc = "done" /\ ~run[r].raised

\* The conversation state the run acted on.
Seen(r) == ConversationState(run[r].user)

\* The texts the run sent to its user's phone, in order.
Delivered(r) ==
    LET own == SelectSeq(run[r].sent, LAMBDA m : m.to = run[r].phone)
    IN  [i \in 1..Len(own) |-> own[i].text]

Outcomes(r) == [i \in 1..Len(run[r].calls) |-> run[r].calls[i].outcome]
Providers(r) == [i \in 1..Len(run[r].calls) |-> run[r].calls[i].provider]

\* The declared order: the primary list, then the fallback.
Chain == Append(models_to_try, FallbackModel)

FallbackCalled(r) == \E i \in 1..Len(run[r].calls) : run[r].calls[i].provider = FallbackModel

\* Every primary provider was attempted and failed.
PrimariesFailed(r) ==
    /\ Len(run[r].calls) >= Len(models_to_try)
    /\ \A i \in 1..Len(models_to_try) : run[r].calls[i].outcome # "Success"

\* Every primary provider and the fallback were attempted and failed.
AllProvidersFailed(r) ==
    /\ Len(run[r].calls) = Len(Chain)
    /\ \A i \in 1..Len(Chain) : run[r].calls[i].outcome # "Success"

\* Some provider returned Success.
SomeSuccess(r) == \E i \in 1..Len(run[r].calls) : run[r].calls[i].outcome = "Success"

\* No directive marker is left in the text.
MarkerFree(text) ==
    /\ ~Contains(TagUpdate, text)
    /\ ~Contains(TagReminders, text)
    /\ ~Contains(<<"[[SOS">>, text)

\* t is body less its leading and trailing whitespace.
IsTrimOf(t, body) ==
    /\ t = <<>> \/ (~IsWs(t[1]) /\ ~IsWs(t[Len(t)]))
    /\ \E i \in 0..Len(body) :
        /\ i + Len(t) <= Len(body)
        /\ SubSeq(body, i + 1, i + Len(t)) = t
        /\ \A k \in 1..Len(body) : (k <= i \/ k > i + Len(t)) => IsWs(body[k])

\* body less its leading and trailing whitespace.
TrimOf(body) ==
    CHOOSE t \in {SubSeq(body, i, j) : i \in 1..(Len(body) + 1), j \in 0..Len(body)} :
        IsTrimOf(t, body)

\* C1: when every primary provider and the fallback fail in an Active run,
\* the run appends no turn to the history and the one message it delivers to
\* the user is the degraded-service notice.
C1_FailureLeavesNoTurn ==
    \A r \in Runs :
        (Returned(r) /\ Seen(r) = "Active" /\ AllProvidersFailed(r))
            => /\ run[r].wrote = <<>>
               /\ Delivered(r) = <<DegradedNotice>>

\* C2: when every primary provider fails with a rate limit and the fallback
\* returns Success with text T, the fallback was attempted, and the one text
\* delivered to the user is T with its directive markers stripped: not the
\* notice, and no marker left in it.
C2_FallbackSuccessDeliversCleanText ==
    \A r \in Runs :
        (/\ Returned(r) /\ Seen(r) = "Active"
         /\ Len(run[r].calls) = Len(Chain)
         /\ \A i \in 1..Len(models_to_try) : run[r].calls[i].outcome = "RateLimited"
         /\ run[r].calls[Len(Chain)].outcome = "Success")
            => /\ FallbackCalled(r)
               /\ Len(Delivered(r)) = 1
               /\ Delivered(r)[1] # DegradedNotice
               /\ MarkerFree(Delivered(r)[1])

\* C3: an Active run in which some provider returns Success appends exactly
\* two turns, the user turn with the original inbound message and then the
\* assistant turn with the final cleaned text, and delivers that text.
C3_SuccessAppendsTurnPair ==
    \A r \in Runs :
        (Returned(r) /\ Seen(r) = "Active" /\ SomeSuccess(r))
            => /\ Len(run[r].wrote) = 2
               /\ run[r].wrote[1] = [role |-> "user", content |-> run[r].orig]
               /\ run[r].wrote[2].role = "assistant"
               /\ Delivered(r) = <<run[r].wrote[2].content>>

\* C4 as claimed: the run for a phone number with no stored user leaves the
\* user stored with the name 'Pending' (NameCapture), has sent the
\* introduction, called no provider and persisted no turn.
C4_FirstRunCreatesPendingUser ==
    \A r \in Runs :
        (Returned(r) /\ ~run[r].stored.exists)
            => /\ users[run[r].phone] = UserRow(run[r].phone, Pending, "None", FALSE)
               /\ ConversationState(users[run[r].phone]) = "NameCapture"
               /\ Delivered(r) = <<IntroPrompt>>
               /\ run[r].calls = <<>>
               /\ run[r].wrote = <<>>

\* C4 amended: the run for a phone number with no stored user issues
\* createUser(phone, 'Pending'); when that store write succeeds the user is
\* stored with the name 'Pending' (NameCapture), when it fails no user is
\* stored; either way the run has sent the introduction and nothing else,
\* called no provider and persisted no turn.
C4_FirstRunCreatesPendingUserIfStored ==
    \A r \in Runs :
        (Returned(r) /\ ~run[r].stored.exists)
            => /\ users[run[r].phone] =
                    IF "create_user" \in run[r].faults THEN NoUser
                    ELSE UserRow(run[r].phone, Pending, "None", FALSE)
               /\ "create_user" \notin run[r].faults
                    => ConversationState(users[run[r].phone]) = "NameCapture"
               /\ run[r].sent = <<[to |-> run[r].phone, text |-> IntroPrompt]>>
               /\ run[r].calls = <<>>
               /\ run[r].wrote = <<>>

C4_Witness ==
    \E r \in Runs :
        /\ Returned(r) /\ ~run[r].stored.exists /\ run[r].faults = {}
        /\ users[run[r].phone].exists
        /\ users[run[r].phone].name = Pending
        /\ run[r].sent # <<>>

\* C5 as claimed: the run for a user whose stored name is 'Pending' leaves
\* the message text, trimmed, stored as the name, has sent the confirmation
\* greeting and called no provider.
C5_NameCaptureStoresTrimmedName ==
    \A r \in Runs :
        (Returned(r) /\ Seen(r) = "NameCapture")
            => /\ IsTrimOf(users[run[r].phone].name, run[r].orig)
               /\ Delivered(r) = <<ConfirmGreeting(users[run[r].phone].name)>>
               /\ run[r].calls = <<>>

\* C5 amended: the run for a user whose stored name is 'Pending' issues the
\* update of the name to the trimmed message text; when that store write
\* succeeds the trimmed text is the stored name, when it fails the stored
\* row is unchanged; either way the run has sent the confirmation greeting
\* with the trimmed text and called no provider.
C5_NameCaptureStoresTrimmedNameIfStored ==
    \A r \in Runs :
        (Returned(r) /\ Seen(r) = "NameCapture")
            => /\ IF "update_user_profile" \in run[r].faults
                  THEN users[run[r].phone] = run[r].stored
                  ELSE IsTrimOf(users[run[r].phone].name, run[r].orig)
               /\ run[r].sent = <<[to |-> run[r].phone,
                                   text |-> ConfirmGreeting(TrimOf(run[r].orig))]>>
               /\ run[r].calls = <<>>
               /\ run[r].wrote = <<>>

C5_Witness ==
    \E r \in Runs :
        /\ Returned(r) /\ Seen(r) = "NameCapture" /\ run[r].faults = {}
        /\ run[r].orig = <<" ", "Asha", " ">>
        /\ users[run[r].phone].name = <<"Asha">>
        /\ run[r].media_id

\* C6: a user's stored name is the sentinel 'Pending' if and only if no
\* NameCapture update has been applied to that user.
C6_SentinelIffNotOnboarded ==
    \A p \in Phones :
        users[p].exists => (users[p].name = Pending <=> ~users[p].onboarded)

\* C7: in one run the providers are attempted in the declared order, the
\* primary list and then the fallback, each at most once; no attempt follows
\* a Success; so a run issues at most |primaries| + 1 calls, and once the
\* chain is over nothing but a Success of the last call or the failure of
\* every provider attempted is left.
C7_SequentialChain ==
    \A r \in Runs :
        LET c == run[r].calls
        IN  /\ Len(c) <= Len(models_to_try) + 1
            /\ \A i \in 1..Len(c) : c[i].provider = Chain[i]
            /\ \A i \in 1..Len(c) : i < Len(c) => c[i].outcome \in Failures
            /\ run[r].success <=> (c # <<>> /\ c[Len(c)].outcome = "Success")
            /\ run[r].pc = "providers" => Len(c) = run[r].idx - 1
            /\ run[r].pc \in {"reply", "save_user", "save_assistant"}
                => (run[r].success \/ Len(c) >= Len(models_to_try))

C7_Witness ==
    \E r \in Runs :
        /\ Returned(r)
        /\ Outcomes(r) = <<"RateLimited", "TransientError", "FatalError">>
        /\ Providers(r) = Chain

\* The fallback block of the run is over.
PastFallback(r) == run[r].pc \in {"reply", "save_user", "save_assistant"} \/ (Returned(r) /\ Seen(r) = "Active")

\* C8 as claimed: the fallback provider is invoked exactly when every primary
\* provider has failed.
C8_FallbackIffPrimariesFailed ==
    \A r \in Runs :
        PastFallback(r) => (FallbackCalled(r) <=> PrimariesFailed(r))

\* C8 amended: the fallback provider is invoked exactly when every primary
\* provider has failed and the fallback client is configured: always in that
\* case, never after a primary Success, never without the client, at most
\* once per run and as its last call; its request carries the system
\* instructions and the user text, no media and no history.
C8_FallbackIffPrimariesFailedAndConfigured ==
    \A r \in Runs :
        LET c == run[r].calls
            fb == {i \in 1..Len(c) : c[i].provider = FallbackModel}
        IN  /\ PastFallback(r) => (FallbackCalled(r) <=> (PrimariesFailed(r) /\ groq_client))
            /\ FallbackCalled(r) => PrimariesFailed(r)
            /\ Cardinality(fb) <= 1
            /\ \A i \in fb :
                /\ i = Len(c)
                /\ c[i].request = [system |-> TRUE, history |-> <<>>, media |-> "None",
                                   text |-> run[r].message_body]

C8_Witness ==
    \E r \in Runs :
        /\ Returned(r) /\ FallbackCalled(r)
        /\ run[r].media_part = "Image"
        /\ run[r].calls[1].request.media = "Image"
        /\ run[r].calls[Len(run[r].calls)].outcome = "Success"

\* C9: for a Success response with a recognized open marker whose payload is
\* not valid structured data, the text delivered to the user contains no
\* part of the marker span, and no directive of that kind is applied.
C9_MalformedSpanRemoved ==
    \A r \in Runs :
        (Returned(r) /\ Seen(r) = "Active" /\ run[r].success
            /\ run[r].response_text = RespMalformed)
            => /\ Len(Delivered(r)) = 1
               /\ \A i \in 1..Len(Delivered(r)[1]) :
                    Delivered(r)[1][i] \notin {"[[UPDATE_PROFILE:", "{bad"}
               /\ users[run[r].phone] = run[r].stored

\* C10: a Success response with a well-formed reminder-batch marker of one
\* entry yields exactly one new reminder, pending, with that time and
\* message, and the marker is absent from the delivered text.
C10_ReminderBatchPersisted ==
    \A r \in Runs :
        (Returned(r) /\ Seen(r) = "Active" /\ run[r].success
            /\ run[r].response_text = RespReminder)
            => /\ Len(reminders) = 1
               /\ reminders[1].status = "pending"
               /\ reminders[1].message = "m1"
               /\ reminders[1].reminder_time = "2025-01-01T09:00:00"
               /\ Len(Delivered(r)) = 1
               /\ MarkerFree(Delivered(r)[1])

\* C11: for a Success response whose text contains [[SOS]] and a user with a
\* stored emergency contact, the run sends the contact an alert that holds
\* the user's name and the original message text, and the one text delivered
\* to the user has no marker and ends with the alert confirmation.
C11_SosAlertsContact ==
    \A r \in Runs :
        (/\ Returned(r) /\ Seen(r) = "Active" /\ run[r].success
         /\ Contains(SosMarker, run[r].response_text)
         /\ run[r].user.emergency_contact # "None")
            => /\ \E i \in 1..Len(run[r].sent) :
                    /\ run[r].sent[i].to = run[r].user.emergency_contact
                    /\ Contains(run[r].user.name, run[r].sent[i].text)
                    /\ Contains(run[r].orig, run[r].sent[i].text)
               /\ Len(Delivered(r)) = 1
               /\ ~Contains(<<"[[SOS">>, Delivered(r)[1])
               /\ Contains(<<"\n\nI HAVE ALERTED YOUR EMERGENCY CONTACT. Help is on the way.">>,
                           Delivered(r)[1])

\* The row was pending and due at the query of the last sweep.
WasDue(row) == row.status = "pending" /\ row.reminder_time <= sweep.at

\* The positions in the log of the messages run k of the sweep sent for the
\* reminder id.
SentBy(k, id) == {j \in 1..Len(sweep.log) : sweep.log[j].n = k /\ sweep.log[j].id = id}

\* The steps the last sweep took for the reminder id.
StepsOf(id) == {j \in 1..Len(sweep.steps) : sweep.steps[j].id = id}

\* The reminders not due or already sent at the query of the last sweep were
\* neither sent nor modified by it.
OthersUntouched ==
    \A k \in 1..Len(sweep.before) :
        ~WasDue(sweep.before[k])
            => SentBy(sweep.n, k) = {} /\ reminders[k] = sweep.before[k]

C13_FailedReminderStaysPending ==
    sweep.pc = "done" =>
        \A j \in 1..Len(sweep.steps) :
            (~sweep.steps[j].resolved \/ ~sweep.steps[j].delivered)
                => reminders[sweep.steps[j].id].status = "pending"

\* C14: a sweep handles the reminders of its query one by one in order, each
\* at most once, whatever fails on the way, and no exception leaves it: when
\* it is over every reminder of the query has been handled once.
C14_SweepNeverAborts ==
    LET ids(rows) == [j \in 1..Len(rows) |-> rows[j].id]
    IN  /\ ~sweep.escaped
        /\ sweep.queried => sweep.due = due_pending(sweep.before, sweep.at, TRUE)
        /\ Len(sweep.steps) <= Len(sweep.due)
        /\ ids(sweep.steps) = SubSeq(ids(sweep.due), 1, Len(sweep.steps))
        /\ \A i, j \in 1..Len(sweep.due) : sweep.due[i].id = sweep.due[j].id => i = j
        /\ sweep.pc = "done" => Len(sweep.steps) = Len(sweep.due)

\* A sweep over two reminders: the first one failed (its user lookup, or its
\* status update), the second one was sent and marked.
C14_Witness ==
    /\ sweep.pc = "done" /\ Len(sweep.due) = 2 /\ Len(sweep.steps) = 2
    /\ sweep.steps[1].resolved /\ ~sweep.steps[1].marked
    /\ sweep.steps[2].marked

\* C15: every status is pending or sent; a step never removes a row; a row
\* changes only in its status, only from pending to sent and only by the
\* status update of the sweep; a row that is new has status pending.
C15_StatusMonotonic ==
    [][/\ Len(reminders') >= Len(reminders)
       /\ \A k \in 1..Len(reminders) :
            \/ reminders'[k] = reminders[k]
            \/ /\ sweep.pc = "mark" /\ sweep'.pc # "mark"
               /\ reminders[k].status = "pending"
               /\ reminders'[k] = [reminders[k] EXCEPT !.status = "sent"]
       /\ \A k \in 1..Len(reminders') :
            /\ reminders'[k].status \in {"pending", "sent"}
            /\ k > Len(reminders) => reminders'[k].status = "pending"]_vars

\* A reminder that was pending at the query of the sweep is sent.
C15_Witness ==
    \E k \in 1..Len(reminders) :
        /\ k <= Len(sweep.before)
        /\ sweep.before[k].status = "pending"
        /\ reminders[k].status = "sent"

\* The turns of the user's history that were there before the run wrote its
\* own.
PriorTurns(r) ==
    LET h == chat_history[run[r].phone]
    IN  SubSeq(h, 1, Len(h) - Len(run[r].wrote))

\* w is the most recent turns of prior, HistoryLimit at most, oldest first,
\* as a provider is given them.
IsRecentWindow(w, prior) ==
    /\ Len(w) = Min(HistoryLimit, Len(prior))
    /\ \A i \in 1..Len(w) :
        LET turn == prior[Len(prior) - Len(w) + i]
        IN  /\ w[i].content = turn.content
            /\ w[i].role = "user" <=> turn.role = "user"

\* C16: a run appends its turns only once its provider calls are over, and
\* the history a provider call is given holds turns from before the run only:
\* the most recent HistoryLimit of them, oldest first, for a primary call
\* without media whose history read succeeded, and nothing for a call with
\* media, for the fallback and after a failed read.
C16_HistoryExcludesCurrentTurn ==
    \A r \in Runs :
        /\ run[r].wrote # <<>> => run[r].pc \in {"save_assistant", "done"}
        /\ \A i \in 1..Len(run[r].wrote) :
            chat_history[run[r].phone][Len(PriorTurns(r)) + i] = run[r].wrote[i]
        /\ \A i \in 1..Len(run[r].calls) :
            LET c == run[r].calls[i]
            IN  IF /\ c.provider # FallbackModel
                   /\ c.request.media = "None"
                   /\ "get_chat_history" \notin run[r].faults
                THEN IsRecentWindow(c.request.history, PriorTurns(r))
                ELSE c.request.history = <<>>

\* A run over a history of more turns than the window: its first call was
\* given the last HistoryLimit of them, and the run then wrote its own two.
C16_Witness ==
    \E r \in Runs :
        /\ Returned(r) /\ Len(run[r].wrote) = 2
        /\ Len(PriorTurns(r)) > HistoryLimit
        /\ Len(run[r].calls[1].request.history) = HistoryLimit
        /\ run[r].calls[1].request.history[1].content # PriorTurns(r)[1].content

UpdateKinds == {"U1", "U2", "Ub", "Uo"}
ReminderKinds == {"R1", "R2", "Rd"}

\* The positions of the parts of the text that are markers of the kinds.
PiecesOf(kinds) == {i \in 1..Len(ex.pieces) : ex.pieces[i] \in kinds}

\* The first position of a set of positions.
FirstOf(S) == CHOOSE i \in S : \A j \in S : i <= j

\* The payload a marker part carries.
PayloadOf(name) ==
    CASE name \in {"U1", "Uo"} -> JDict(Dict("{ec}"))
      [] name = "U2" -> JDict(Dict("{e2}"))
      [] name \in {"R1", "Rd"} -> JList(<<JDict(Dict("{r1}"))>>)
      [] name = "R2" -> JList(<<JDict(Dict("{r2}"))>>)
      [] OTHER -> None

\* The reminders table holds the entries applied, and nothing else.
RemindersAre(entries) ==
    /\ Len(reminders) = Len(entries)
    /\ \A k \in 1..Len(entries) :
        /\ reminders[k].message = entries[k].d["message"]
        /\ reminders[k].reminder_time = entries[k].d["time"]
        /\ reminders[k].status = "pending"

\* C17: when a text holds two or more markers of one kind, at most one
\* directive of the kind is applied and it is the one of the first marker:
\* the profile update issued and stored is none or that of the first update
\* marker, the reminders created are none or those of the first batch marker,
\* and several [[SOS]] give one alert at most.
C17_FirstMarkerWins ==
    ex.pc = "applied" =>
        LET ups == PiecesOf(UpdateKinds)
            rems == PiecesOf(ReminderKinds)
        IN  /\ Cardinality(ups) >= 2 =>
                \/ ex.d.updates = None
                \/ /\ ex.d.updates = PayloadOf(ex.pieces[FirstOf(ups)])
                   /\ users["p1"].emergency_contact
                        = PayloadOf(ex.pieces[FirstOf(ups)]).d["emergency_contact"]
            /\ Cardinality(rems) >= 2 =>
                /\ RemindersAre(ex.d.entries)
                /\ \/ ex.d.entries = <<>>
                   \/ ex.d.entries = PayloadOf(ex.pieces[FirstOf(rems)]).items
            /\ Cardinality(PiecesOf({"S"})) >= 2 => Len(ex.d.alert) <= 1

\* A text with the update of c2 first and the update of c1 after it: c2 is
\* stored.  And one with the batch of r2 first and that of r1 after it.
C17_Witness ==
    /\ ex.pc = "applied"
    /\ \/ /\ ex.pieces[1] = "U2"
          /\ \E i \in 2..Len(ex.pieces) : ex.pieces[i] = "U1"
          /\ ex.d.updates = JDict(Dict("{e2}"))
          /\ users["p1"].emergency_contact = "c2"
       \/ /\ ex.pieces[1] = "R2"
          /\ \E i \in 2..Len(ex.pieces) : ex.pieces[i] = "R1"
          /\ Len(reminders) = 1 /\ reminders[1].message = "m2"

\* C19: for a text with one marker of the tag, well-formed, the cleaned text
\* extract_json gives is the text before the marker followed by the text after
\* its closing marker (up to the whitespace at its two ends).
C19_SpanRemovedExactly ==
    LET all == IF ex.tag = TagUpdate THEN UpdateKinds ELSE ReminderKinds
        good == IF ex.tag = TagUpdate THEN {"U1", "U2"} ELSE {"R1", "R2"}
    IN  (ex.pc = "extracted" /\ Cardinality(PiecesOf(all)) = 1 /\ PiecesOf(good) # {})
            => LET i == FirstOf(PiecesOf(good))
               IN  strip(ex.one.text)
                      = strip(Concat(SubSeq(ex.pieces, 1, i - 1))
                                \o Concat(SubSeq(ex.pieces, i + 1, Len(ex.pieces))))

\* C20: for a text whose markers are well-formed, one of a kind at most, in
\* any order, every directive present is applied: the profile update, the
\* reminder batch, and the SOS (the marker is stripped and the contact is
\* alerted or the warning is appended).
C20_EveryDirectiveHonoured ==
    (/\ ex.pc = "applied"
     /\ \A i \in 1..Len(ex.pieces) : ex.pieces[i] \notin {"Ub", "Uo", "Rd"}
     /\ Cardinality(PiecesOf(UpdateKinds)) <= 1
     /\ Cardinality(PiecesOf(ReminderKinds)) <= 1
     /\ Cardinality(PiecesOf({"S"})) <= 1)
        => /\ \A i \in PiecesOf(UpdateKinds) : ex.d.updates = PayloadOf(ex.pieces[i])
           /\ \A i \in PiecesOf(ReminderKinds) :
                /\ ex.d.entries = PayloadOf(ex.pieces[i]).items
                /\ RemindersAre(ex.d.entries)
           /\ PiecesOf({"S"}) # {} =>
                /\ ~Contains(<<"[[SOS">>, ex.d.final_reply)
                /\ \/ Len(ex.d.alert) = 1
                   \/ Contains(<<"\n\nI tried to alert your family, but NO Emergency Contact is saved! Please call 102/108 immediately.">>,
                               ex.d.final_reply)

EntriesOf(es) == [i \in 1..Len(es) |-> JDict(Dict(es[i]))]

\* C21: when a reminder batch holds a malformed entry, only that entry is
\* skipped: the reminders created are the well-formed entries of the batch,
\* those after the malformed one included, in order and pending.
C21_MalformedEntrySkippedAlone ==
    ex.pc = "applied" =>
        LET good == SelectSeq(EntriesOf(ex.pieces), GoodEntry)
        IN  /\ ex.d.entries = good
            /\ RemindersAre(good)

\* Every provider the run called has failed, the primaries all among them.
ChainFailed(r) ==
    /\ Len(run[r].calls) >= Len(models_to_try)
    /\ \A i \in 1..Len(run[r].calls) : run[r].calls[i].outcome # "Success"

\* C22: from the end of the provider chain on, a step of a run whose
\* providers all failed leaves the users table and the reminders table as
\* they are, and every message the run has sent is to its own user: no
\* profile update, no reminder, no alert of the emergency contact.
C22_FailureAppliesNoDirective ==
    [][\A r \in Runs :
        (/\ run[r].pc \in {"reply", "save_user", "save_assistant"}
         /\ ChainFailed(r) /\ ~run[r].success)
            => /\ users' = users
               /\ reminders' = reminders
               /\ \A i \in 1..Len(run'[r].sent) : run'[r].sent[i].to = run[r].phone]_vars

\* A run of a user with a stored emergency contact whose three providers
\* failed: it is over, the notice was sent and nothing else.
C22_Witness ==
    \E r \in Runs :
        /\ Returned(r) /\ Seen(r) = "Active" /\ AllProvidersFailed(r)
        /\ run[r].user.emergency_contact = "c1"
        /\ users[run[r].phone] = run[r].stored
        /\ reminders = <<>>
        /\ run[r].sent = <<[to |-> run[r].phone, text |-> DegradedNotice]>>

\* C25: a run for a user whose stored name is a real one, the runs whose
\* read of the user failed included, is an Active run: it issues no
\* createUser, stores no message as the name and sends no introduction.
C25_NamedUserNeverReonboarded ==
    \A r \in Runs :
        (/\ run[r].pc \notin {"idle", "get_user"}
         /\ run[r].stored.exists /\ run[r].stored.name # Pending)
            => /\ Seen(r) = "Active"
               /\ run[r].pc \notin {"create_user", "update_name"}
               /\ \A i \in 1..Len(run[r].sent) : run[r].sent[i].text # IntroPrompt

\* C28: over the sweeps so far, each reminder was sent at most once, whether
\* its status update succeeded or not.
C28_ReminderSentAtMostOnce ==
    \A k \in 1..Len(reminders) :
        Cardinality({j \in 1..Len(sweep.log) : sweep.log[j].id = k}) <= 1

\* C29: a run that has returned has sent one message to its user's phone,
\* whatever its branch, and one more at most, to the emergency contact of
\* the user it loaded.
C29_OneReplyPerRun ==
    \A r \in Runs :
        Returned(r) =>
            LET others == SelectSeq(run[r].sent, LAMBDA m : m.to # run[r].phone)
            IN  /\ Len(Delivered(r)) = 1
                /\ Len(others) <= 1
                /\ others # <<>> =>
                    /\ run[r].user.exists
                    /\ others[1].to = run[r].user.emergency_contact
                /\ Seen(r) = "Onboarding" => Delivered(r) = <<IntroPrompt>>
                /\ Seen(r) = "NameCapture"
                    => Delivered(r) = <<ConfirmGreeting(new_name(run[r].orig))>>
                /\ (Seen(r) = "Active" /\ run[r].success)
                    => Delivered(r) = <<run[r].response_text>>
                /\ (Seen(r) = "Active" /\ ~run[r].success)
                    => Delivered(r) = <<run[r].final_reply>>

\* An Active run of a user with an emergency contact that ended in a Success
\* of the fallback with an [[SOS]] text: one message, to the user.
C29_Witness ==
    \E r \in Runs :
        /\ Returned(r) /\ Seen(r) = "Active" /\ FallbackCalled(r) /\ run[r].success
        /\ run[r].response_text = RespSos
        /\ run[r].user.emergency_contact = "c1"
        /\ Len(run[r].sent) = 1

\* C24: the conversation state a turn acts on is that of the stored user
\* and its name when the turn reads it; and after a crash in a turn, the
\* turn of the next inbound message of the user observes the state the
\* crashed turn observed.
C24_CrashRepeatsState ==
    /\ \A r \in Runs :
        (run[r].pc \notin {"idle", "get_user"} /\ "get_user" \notin run[r].faults)
            => Seen(r) = ConversationState(run[r].stored)
    /\ \A q, r \in Runs :
        (/\ Crashed(q) /\ r # q
         /\ run[r].pc \notin {"idle", "get_user"}
         /\ run[r].phone = run[q].phone
         /\ "get_user" \notin (run[q].faults \cup run[r].faults))
            => Seen(r) = Seen(q)

\* C23: in a run the user turn is written before the assistant turn,
\* whatever other runs do in between: nothing is written before the step of
\* the user turn, the turns a run wrote are in that order, and when it wrote
\* both the user's history holds its user turn at an earlier position than
\* its assistant turn.
C23_UserTurnBeforeAssistantTurn ==
    \A r \in Runs :
        LET w == run[r].wrote
            h == IF run[r].phone \in Phones THEN chat_history[run[r].phone] ELSE <<>>
        IN  /\ run[r].pc \notin {"save_assistant", "done"} => w = <<>>
            /\ Len(w) <= 2
            /\ \A i, j \in 1..Len(w) :
                i < j => (w[i].role = "user" /\ w[j].role = "assistant")
            /\ Len(w) = 2 =>
                /\ w[1] = [role |-> "user", content |-> run[r].message_body]
                /\ w[2] = [role |-> "assistant", content |-> run[r].final_reply]
                /\ \E i, j \in 1..Len(h) : i < j /\ h[i] = w[1] /\ h[j] = w[2]

\* Two runs of one user, for two different messages, have each written their
\* pair, and the history holds the two user turns and then the two assistant
\* turns: the pairs are interleaved.
C23_Witness ==
    \E r, q \in Runs :
        /\ r # q /\ run[r].phone = run[q].phone
        /\ Returned(r) /\ Returned(q)
        /\ Len(run[r].wrote) = 2 /\ Len(run[q].wrote) = 2
        /\ run[r].orig # run[q].orig
        /\ chat_history[run[r].phone]
                = <<run[r].wrote[1], run[q].wrote[1], run[r].wrote[2], run[q].wrote[2]>>

\* C26: of two runs of one user that are in flight together, no store
\* operation of either failing and neither message being the word
\* 'Pending', one of which found the name 'Pending', one stores its message
\* as the name and the other is an Active turn that calls a provider.
C26_OneMessageIsTheName ==
    \A r, q \in Runs :
        (/\ r # q /\ run[r].phone = run[q].phone
         /\ Returned(r) /\ Returned(q)
         /\ new_name(run[r].orig) # Pending /\ new_name(run[q].orig) # Pending
         /\ run[r].faults = {} /\ run[q].faults = {}
         /\ run[r].stored.exists /\ run[r].stored.name = Pending
         /\ run[q].stored.exists)
            => /\ Seen(r) = "NameCapture"
               /\ Seen(q) = "Active"
               /\ run[q].calls # <<>>

\* C27: of two runs of one phone number that are in flight together, no
\* store operation of either failing, one at most issues createUser and
\* sends the introduction.
C27_OneCreateOneIntroduction ==
    \A r, q \in Runs :
        (/\ r # q /\ run[r].phone = run[q].phone
         /\ run[r].faults = {} /\ run[q].faults = {})
            => ~(/\ Seen(r) = "Onboarding" /\ run[r].pc \in {"create_user", "done"}
                 /\ Seen(q) = "Onboarding" /\ run[q].pc \in {"create_user", "done"}
                 /\ Delivered(r) = <<IntroPrompt>>
                 /\ Delivered(q) = <<IntroPrompt>>)

\* C30: a run whose response holds [[SOS]] and a profile update that
\* supplies an emergency contact, for a user loaded with no emergency
\* contact, alerts nobody, and the one text it delivers to the user holds the
\* no-contact warning.
C30_SosUsesLoadedContact ==
    \A r \in Runs :
        (/\ Returned(r) /\ Seen(r) = "Active" /\ run[r].success
         /\ Contains(SosMarker, run[r].response_text)
         /\ Contains(TagUpdate, run[r].response_text)
         /\ run[r].user.emergency_contact = "None")
            => /\ \A i \in 1..Len(run[r].sent) : run[r].sent[i].to = run[r].phone
               /\ Len(Delivered(r)) = 1
               /\ Contains(<<"\n\nI tried to alert your family, but NO Emergency Contact is saved! Please call 102/108 immediately.">>,
                           Delivered(r)[1])

====
